---- MODULE Spec2Model ----
(***************************************************************************)
(* Model of the k8s-mongo-operator core:                                   *)
(*   - EventManager (managers/EventManager.py): the watch loop that turns  *)
(*     ADDED / MODIFIED / DELETED events into calls on KubernetesService;  *)
(*   - KubernetesService (services/KubernetesService.py): the wrappers     *)
(*     around the Kubernetes client, with the platform's stored secrets,   *)
(*     services and stateful sets as state;                                *)
(*   - RestoreHelper (helpers/RestoreHelper.py): restoreIfNeeded and the   *)
(*     calls it makes on the secret API, the bucket, the local disk and    *)
(*     the mongorestore executable.                                        *)
(* Python exceptions are values: a handler threads a context record        *)
(* through its calls and a call is skipped once an exception is pending.   *)
(***************************************************************************)
EXTENDS Integers, Sequences, FiniteSets, TLC

\* ------------------------------------------------------------------------
\* Bounds of the model
\* ------------------------------------------------------------------------
MaxReplicas == 2
MaxFault == 4
MaxBlobs == 2
MaxTime == 2
MaxExit == 1
MaxIterations == 2
MaxStream == 2
MaxStopCalls == 1

\* ------------------------------------------------------------------------
\* Values
\* ------------------------------------------------------------------------
None == "None"

Names == {"mongo-a", "mongo-b"}
Namespaces == {"default"}
Passwords == {"pw1", "pw2"}

NoExc == [cls |-> "None", status |-> 0]
ApiException(status) == [cls |-> "ApiException", status |-> status]
TypeError == [cls |-> "TypeError", status |-> 0]
KeyError == [cls |-> "KeyError", status |-> 0]

Raised(ctx) == ctx.exc # NoExc

EmptyDict == [k \in {} |-> None]

DictDel(d, k) == [x \in (DOMAIN d) \ {k} |-> d[x]]

\* The cluster objects a watch event can carry.
ClusterObjects ==
    { [metadata |-> [name |-> n, namespace |-> ns],
       spec |-> [mongodb |-> [replicas |-> r]]] :
        n \in Names, ns \in Namespaces, r \in 1..MaxReplicas }

\* EventTypes with a fourth member that the handler map does not know.
EventTypes_members_Error == {"ADDED", "MODIFIED", "DELETED", "ERROR"}

\* class EventTypes(Enum): the member names.
EventTypes_members == {"ADDED", "MODIFIED", "DELETED"}

\* Type strings the watch can deliver, the three known ones included.
TypeStrings == EventTypes_members \cup {"ERROR", "added"}

WellFormedEvents == { [type |-> t, object |-> o] : t \in TypeStrings, o \in ClusterObjects }

\* Events lacking "type", lacking "object", or lacking both.
MalformedEvents ==
    { [object |-> o] : o \in ClusterObjects }
      \cup { [type |-> t] : t \in TypeStrings }
      \cup { [raw_object |-> None] }

Events == WellFormedEvents \cup MalformedEvents

VARIABLES
    secrets,        \* platform: (namespace, name) -> secret data
    services,       \* platform: (namespace, name) -> service manifest
    stateful_sets,  \* platform: (namespace, name) -> stateful set manifest
    exec,           \* position of EventManager._execute
    event,          \* the event last handed to _processEvent
    calls,          \* the API requests issued while processing that event
    log,            \* the log records written while processing that event
    raised,         \* the exception that left _processEvent (NoExc if none)
    blobs,          \* bucket listing under the prefix: <<[name, time_created]>>
    files,          \* local files under /tmp
    cluster_object, \* the argument of the last restoreIfNeeded call
    rcalls,         \* the external calls made by that restoreIfNeeded call
    result,         \* its outcome: returned value or raised exception
    state,          \* runner lifecycle: Created, Running, StopRequested, Stopped
    wpc,            \* the runner's worker thread: none, head, running, exited
    hook_called,    \* _beforeShuttingDown has been invoked
    event_watcher,  \* the Watch object: its _stop flag
    iterations,     \* number of _execute calls the worker has started
    caught,         \* number of exceptions the runner caught and logged
    stop_calls,     \* number of stop() calls made on the stopped runner
    stream,         \* the events the open watch stream delivers, in order
    pos,            \* how many of them the for loop has taken
    oplog           \* the events processed from this stream, with their requests

evars == <<secrets, services, stateful_sets, exec, event, calls, log, raised>>
rvars == <<blobs, files, cluster_object, rcalls, result>>
mvars == <<state, wpc, hook_called, event_watcher, iterations, caught, stop_calls,
           stream, pos, oplog>>
vars == <<secrets, services, stateful_sets, exec, event, calls, log, raised,
          blobs, files, cluster_object, rcalls, result,
          state, wpc, hook_called, event_watcher, iterations, caught, stop_calls,
          stream, pos, oplog>>

\* ------------------------------------------------------------------------
\* The Kubernetes client as KubernetesService uses it.  A request is
\* appended to ctx.calls with the HTTP status of its response; a response
\* of 4xx/5xx raises ApiException.  ctx.fault is the ordinal of the request
\* of this event that the platform answers with 500 (0: none).
\* ------------------------------------------------------------------------
Request(ctx, api, key, status) ==
    [ctx EXCEPT !.calls = Append(@, [api |-> api, key |-> key, status |-> status]),
                !.exc = IF status >= 400 THEN ApiException(status) ELSE NoExc]

Faulty(ctx) == Len(ctx.calls) + 1 = ctx.fault

create_namespaced_secret(ctx, namespace, body) ==
    LET key == <<namespace, body.name>> IN
    IF Faulty(ctx) THEN Request(ctx, "create_namespaced_secret", key, 500)
    ELSE IF key \in DOMAIN ctx.secrets THEN Request(ctx, "create_namespaced_secret", key, 409)
    ELSE [Request(ctx, "create_namespaced_secret", key, 201)
            EXCEPT !.secrets = @ @@ (key :> body.data)]

read_namespaced_secret(ctx, name, namespace) ==
    LET key == <<namespace, name>> IN
    IF Faulty(ctx) THEN Request(ctx, "read_namespaced_secret", key, 500)
    ELSE IF key \notin DOMAIN ctx.secrets THEN Request(ctx, "read_namespaced_secret", key, 404)
    ELSE Request(ctx, "read_namespaced_secret", key, 200)

delete_namespaced_secret(ctx, name, namespace) ==
    LET key == <<namespace, name>> IN
    IF Faulty(ctx) THEN Request(ctx, "delete_namespaced_secret", key, 500)
    ELSE IF key \notin DOMAIN ctx.secrets THEN Request(ctx, "delete_namespaced_secret", key, 404)
    ELSE [Request(ctx, "delete_namespaced_secret", key, 200)
            EXCEPT !.secrets = DictDel(@, key)]

create_namespaced_service(ctx, namespace, body) ==
    LET key == <<namespace, body.name>> IN
    IF Faulty(ctx) THEN Request(ctx, "create_namespaced_service", key, 500)
    ELSE IF key \in DOMAIN ctx.services THEN Request(ctx, "create_namespaced_service", key, 409)
    ELSE [Request(ctx, "create_namespaced_service", key, 201)
            EXCEPT !.services = @ @@ (key :> body)]

patch_namespaced_service(ctx, name, namespace, body) ==
    LET key == <<namespace, name>> IN
    IF Faulty(ctx) THEN Request(ctx, "patch_namespaced_service", key, 500)
    ELSE IF key \notin DOMAIN ctx.services THEN Request(ctx, "patch_namespaced_service", key, 404)
    ELSE [Request(ctx, "patch_namespaced_service", key, 200)
            EXCEPT !.services[key] = body]

delete_namespaced_service(ctx, name, namespace) ==
    LET key == <<namespace, name>> IN
    IF Faulty(ctx) THEN Request(ctx, "delete_namespaced_service", key, 500)
    ELSE IF key \notin DOMAIN ctx.services THEN Request(ctx, "delete_namespaced_service", key, 404)
    ELSE [Request(ctx, "delete_namespaced_service", key, 200)
            EXCEPT !.services = DictDel(@, key)]

create_namespaced_stateful_set(ctx, namespace, body) ==
    LET key == <<namespace, body.name>> IN
    IF Faulty(ctx) THEN Request(ctx, "create_namespaced_stateful_set", key, 500)
    ELSE IF key \in DOMAIN ctx.stateful_sets
         THEN Request(ctx, "create_namespaced_stateful_set", key, 409)
    ELSE [Request(ctx, "create_namespaced_stateful_set", key, 201)
            EXCEPT !.stateful_sets = @ @@ (key :> body)]

patch_namespaced_stateful_set(ctx, name, namespace, body) ==
    LET key == <<namespace, name>> IN
    IF Faulty(ctx) THEN Request(ctx, "patch_namespaced_stateful_set", key, 500)
    ELSE IF key \notin DOMAIN ctx.stateful_sets
         THEN Request(ctx, "patch_namespaced_stateful_set", key, 404)
    ELSE [Request(ctx, "patch_namespaced_stateful_set", key, 200)
            EXCEPT !.stateful_sets[key] = body]

delete_namespaced_stateful_set(ctx, name, namespace) ==
    LET key == <<namespace, name>> IN
    IF Faulty(ctx) THEN Request(ctx, "delete_namespaced_stateful_set", key, 500)
    ELSE IF key \notin DOMAIN ctx.stateful_sets
         THEN Request(ctx, "delete_namespaced_stateful_set", key, 404)
    ELSE [Request(ctx, "delete_namespaced_stateful_set", key, 200)
            EXCEPT !.stateful_sets = DictDel(@, key)]

\* ------------------------------------------------------------------------
\* KubernetesResources (manifest builders used by KubernetesService)
\* ------------------------------------------------------------------------
KubernetesResources_createSecret(secret_name, namespace, secret_data) ==
    [kind |-> "Secret", name |-> secret_name, namespace |-> namespace, data |-> secret_data]

KubernetesResources_createService(o) ==
    [kind |-> "Service", name |-> o.metadata.name, namespace |-> o.metadata.namespace,
     spec |-> o.spec]

\* ------------------------------------------------------------------------
\* KubernetesService
\* ------------------------------------------------------------------------
\* OPERATOR_ADMIN_SECRET_FORMAT.format(name)
OPERATOR_ADMIN_SECRET_FORMAT(name) == <<name, "-admin-credentials">>

getSecret(ctx, secret_name, namespace) ==
    read_namespaced_secret(ctx, secret_name, namespace)

\* createSecret without the 409 branch: every ApiException is re-raised.
createSecret_Reraise(ctx, secret_name, namespace, secret_data) ==
    LET secret_body == KubernetesResources_createSecret(secret_name, namespace, secret_data)
        c == create_namespaced_secret(ctx, namespace, secret_body)
    IN  IF ~Raised(c) THEN [c EXCEPT !.log = Append(@, "info")] ELSE c

\* createSecret answering a 409 by overwriting the stored data with the new.
createSecret_Overwrite(ctx, secret_name, namespace, secret_data) ==
    LET secret_body == KubernetesResources_createSecret(secret_name, namespace, secret_data)
        c == create_namespaced_secret(ctx, namespace, secret_body)
    IN  IF ~Raised(c)
        THEN [c EXCEPT !.log = Append(@, "info")]
        ELSE IF c.exc.cls = "ApiException" /\ c.exc.status = 409
        THEN [getSecret([c EXCEPT !.exc = NoExc, !.log = Append(@, "warning")],
                        secret_name, namespace)
                EXCEPT !.secrets[<<namespace, secret_name>>] = secret_data]
        ELSE c

createSecret(ctx, secret_name, namespace, secret_data) ==
    LET secret_body == KubernetesResources_createSecret(secret_name, namespace, secret_data)
        c == create_namespaced_secret(ctx, namespace, secret_body)
    IN  IF ~Raised(c)
        THEN [c EXCEPT !.log = Append(@, "info")]
        ELSE IF c.exc.cls = "ApiException" /\ c.exc.status = 409
        THEN getSecret([c EXCEPT !.exc = NoExc, !.log = Append(@, "warning")],
                       secret_name, namespace)
        ELSE c

createOperatorAdminSecret(ctx, o) ==
    LET secret_data == [username |-> "root", password |-> ctx.password]
    IN  createSecret(ctx, OPERATOR_ADMIN_SECRET_FORMAT(o.metadata.name),
                     o.metadata.namespace, secret_data)

deleteSecret(ctx, name, namespace) ==
    delete_namespaced_secret(ctx, name, namespace)

deleteOperatorAdminSecret(ctx, cluster_name, namespace) ==
    deleteSecret(ctx, OPERATOR_ADMIN_SECRET_FORMAT(cluster_name), namespace)

createService(ctx, o) ==
    LET namespace == o.metadata.namespace
        body == KubernetesResources_createService(o)
    IN  create_namespaced_service(ctx, namespace, body)

updateService(ctx, o) ==
    LET name == o.metadata.name
        namespace == o.metadata.namespace
        body == KubernetesResources_createService(o)
    IN  patch_namespaced_service(ctx, name, namespace, body)

deleteService(ctx, name, namespace) ==
    delete_namespaced_service(ctx, name, namespace)

createStatefulSet(ctx, o) ==
    LET namespace == o.metadata.namespace
        body == KubernetesResources_createService(o)
    IN  create_namespaced_stateful_set(ctx, namespace, body)

updateStatefulSet(ctx, o) ==
    LET name == o.metadata.name
        namespace == o.metadata.namespace
        body == KubernetesResources_createService(o)
    IN  patch_namespaced_stateful_set(ctx, name, namespace, body)

deleteStatefulSet(ctx, name, namespace) ==
    delete_namespaced_stateful_set(ctx, name, namespace)

\* Positional parameters (after self) of the three delete methods.
deleteStatefulSet_params == <<"name", "namespace">>
deleteService_params == <<"name", "namespace">>
deleteOperatorAdminSecret_params == <<"cluster_name", "namespace">>

\* Python binds the positional arguments to the parameters before the body
\* runs; a count mismatch raises TypeError and the body does not run.
Binds(args, params) == Len(args) = Len(params)

\* ------------------------------------------------------------------------
\* EventManager
\* ------------------------------------------------------------------------
\* _add creating the stateful set first and the secret last.
_add_WorkloadFirst(ctx, o) ==
    LET c1 == createStatefulSet(ctx, o)
        c2 == IF Raised(c1) THEN c1 ELSE createService(c1, o)
        c3 == IF Raised(c2) THEN c2 ELSE createOperatorAdminSecret(c2, o)
    IN  c3

_add(ctx, o) ==
    LET c1 == createOperatorAdminSecret(ctx, o)
        c2 == IF Raised(c1) THEN c1 ELSE createService(c1, o)
        c3 == IF Raised(c2) THEN c2 ELSE createStatefulSet(c2, o)
    IN  c3

\* _update that also re-creates the operator admin secret.
_update_WithSecret(ctx, o) ==
    LET c0 == createOperatorAdminSecret(ctx, o)
        c1 == IF Raised(c0) THEN c0 ELSE updateService(c0, o)
        c2 == IF Raised(c1) THEN c1 ELSE updateStatefulSet(c1, o)
    IN  c2

_update(ctx, o) ==
    LET c1 == updateService(ctx, o)
        c2 == IF Raised(c1) THEN c1 ELSE updateStatefulSet(c1, o)
    IN  c2

\* _delete passing name and namespace but removing the secret first and the
\* stateful set last.
_delete_SecretFirst(ctx, o) ==
    LET name == o.metadata.name
        namespace == o.metadata.namespace
        c1 == deleteOperatorAdminSecret(ctx, name, namespace)
        c2 == IF Raised(c1) THEN c1 ELSE deleteService(c1, name, namespace)
        c3 == IF Raised(c2) THEN c2 ELSE deleteStatefulSet(c2, name, namespace)
    IN  c3

_delete(ctx, o) ==
    LET args == <<o>>
        c1 == IF Binds(args, deleteStatefulSet_params)
              THEN deleteStatefulSet(ctx, args[1], args[2])
              ELSE [ctx EXCEPT !.exc = TypeError]
        c2 == IF Raised(c1) THEN c1
              ELSE IF Binds(args, deleteService_params)
              THEN deleteService(c1, args[1], args[2])
              ELSE [c1 EXCEPT !.exc = TypeError]
        c3 == IF Raised(c2) THEN c2
              ELSE IF Binds(args, deleteOperatorAdminSecret_params)
              THEN deleteOperatorAdminSecret(c2, args[1], args[2])
              ELSE [c2 EXCEPT !.exc = TypeError]
    IN  c3

\* event_type_to_action_map[t](o); a key that is not in the map raises KeyError.
event_type_to_action_map == {"ADDED", "MODIFIED", "DELETED"}

\* The handler map with the handlers of ADDED and MODIFIED exchanged.
Dispatch_Swapped(ctx, t, o) ==
    IF t \notin event_type_to_action_map THEN [ctx EXCEPT !.exc = KeyError]
    ELSE IF t = "ADDED" THEN _update(ctx, o)
    ELSE IF t = "MODIFIED" THEN _add(ctx, o)
    ELSE _delete(ctx, o)

Dispatch(ctx, t, o) ==
    IF t \notin event_type_to_action_map THEN [ctx EXCEPT !.exc = KeyError]
    ELSE IF t = "ADDED" THEN _add(ctx, o)
    ELSE IF t = "MODIFIED" THEN _update(ctx, o)
    ELSE _delete(ctx, o)

\* event[k]: a missing key raises KeyError.
HasKey(e, k) == k \in DOMAIN e

\* _processEvent testing only for a missing "type": event["object"] of an
\* event without payload raises KeyError.
_processEvent_TypeOnly(ctx, e) ==
    IF ~HasKey(e, "type")
    THEN [ctx EXCEPT !.log = Append(@, "warning")]
    ELSE IF e.type \notin EventTypes_members
    THEN [ctx EXCEPT !.log = Append(@, "warning")]
    ELSE IF ~HasKey(e, "object") THEN [ctx EXCEPT !.exc = KeyError]
    ELSE LET c == Dispatch(ctx, e.type, e.object)
         IN  IF c.exc.cls = "ApiException"
             THEN [c EXCEPT !.exc = NoExc, !.log = Append(@, "exception")]
             ELSE c

_processEvent(ctx, e) ==
    IF ~HasKey(e, "type") \/ ~HasKey(e, "object")
    THEN [ctx EXCEPT !.log = Append(@, "warning")]
    ELSE IF e.type \notin EventTypes_members
    THEN [ctx EXCEPT !.log = Append(@, "warning")]
    ELSE LET c == Dispatch(ctx, e.type, e.object)
         IN  IF c.exc.cls = "ApiException"
             THEN [c EXCEPT !.exc = NoExc, !.log = Append(@, "exception")]
             ELSE c

\* The context _processEvent starts from: the platform as it is, nothing
\* called or logged yet, the platform fault and the random password drawn.
Context(fault, password) ==
    [secrets |-> secrets, services |-> services, stateful_sets |-> stateful_sets,
     calls |-> <<>>, log |-> <<>>, exc |-> NoExc, fault |-> fault, password |-> password]

\* What the environment draws for one event: the request the platform fails
\* and the password createRandomPassword returns.  A draw the event cannot
\* consume (no handler runs, or the handler generates no password) is fixed.
Draws(e) ==
    IF ~HasKey(e, "type") \/ ~HasKey(e, "object") THEN {[fault |-> 0, password |-> "pw1"]}
    ELSE IF e.type \notin EventTypes_members THEN {[fault |-> 0, password |-> "pw1"]}
    ELSE IF e.type = "ADDED"
    THEN { [fault |-> f, password |-> p] : f \in 0..MaxFault, p \in Passwords }
    ELSE { [fault |-> f, password |-> "pw1"] : f \in 0..MaxFault }

\* _execute: self.event_watcher.stream(...) is opened.
_execute ==
    /\ exec # "streaming"
    /\ exec' = "streaming"
    /\ UNCHANGED <<secrets, services, stateful_sets, event, calls, log, raised>>
    /\ UNCHANGED rvars
    /\ UNCHANGED mvars

\* _execute: one turn of "for event in stream: self._processEvent(event)".
\* An exception leaving _processEvent leaves the loop and _execute.
StreamEvent ==
    /\ exec = "streaming"
    /\ \E e \in Events : \E d \in Draws(e) :
         \E c \in {_processEvent(Context(d.fault, d.password), e)} :
           /\ event' = e
           /\ secrets' = c.secrets
           /\ services' = c.services
           /\ stateful_sets' = c.stateful_sets
           /\ calls' = c.calls
           /\ log' = c.log
           /\ raised' = c.exc
           /\ exec' = IF Raised(c) THEN "raised" ELSE "streaming"
    /\ UNCHANGED rvars
    /\ UNCHANGED mvars

\* _execute: the stream ends (request timeout) and _execute returns.
StreamTimeout ==
    /\ exec = "streaming"
    /\ exec' = "returned"
    /\ UNCHANGED <<secrets, services, stateful_sets, event, calls, log, raised>>
    /\ UNCHANGED rvars
    /\ UNCHANGED mvars

\* ------------------------------------------------------------------------
\* RestoreHelper
\* ------------------------------------------------------------------------
\* Object names and file names are paths: sequences of "/"-separated parts.
\* A Python value that is a str or None:
Str(path) == [t |-> "str", v |-> path]
PyNone == [t |-> "NoneType", v |-> <<>>]

DEFAULT_BACKUP_PREFIX == "backups"

\* The archive names in use, MaxBlobs of them.
ArchiveNames == <<"a1.archive.gz", "a2.archive.gz", "a3.archive.gz", "a4.archive.gz">>
BlobBases == { ArchiveNames[i] : i \in 1..MaxBlobs }

\* The objects the bucket can hold: name (prefix/base) and creation time.
\* The backups lie under the default prefix; a cluster configured with
\* another prefix finds nothing under it.
Blobs == { [name |-> <<DEFAULT_BACKUP_PREFIX, b>>, time_created |-> t] :
             b \in BlobBases, t \in 1..MaxTime }

secret_key_ref == [name |-> "storage-serviceaccount", key |-> "json"]

\* The gcs sections: prefix and restore_bucket both unset, or both set.
GcsBase ==
    { [bucket |-> "bucket", prefix |-> pr[1], restore_bucket |-> pr[2],
       service_account |-> [secret_key_ref |-> secret_key_ref]] :
        pr \in {<<None, None>>, <<"pre", "restore-bucket">>} }

\* gcs sections without the restore_from attribute, and with it: the
\* sentinel or an exact archive name (which the bucket may or may not hold)
GcsConfigs ==
    GcsBase \cup
    { [bucket |-> g.bucket, prefix |-> g.prefix, restore_bucket |-> g.restore_bucket,
       service_account |-> g.service_account, restore_from |-> rf] :
        g \in GcsBase, rf \in {<<"latest">>, <<ArchiveNames[1]>>} }

RestoreObjects ==
    { [metadata |-> [name |-> "mongo-a", namespace |-> "default"],
       spec |-> [mongodb |-> [replicas |-> r], backups |-> [gcs |-> g]]] :
        r \in 1..MaxReplicas, g \in GcsConfigs }

NoObject == [metadata |-> None]

hasattr(obj, attr) == attr \in DOMAIN obj

SubprocessError(backup_file, hostname, returncode, stderr, stdout) ==
    [cls |-> "SubprocessError", status |-> 0, backup_file |-> backup_file,
     hostname |-> hostname, returncode |-> returncode, stderr |-> stderr, stdout |-> stdout]
NotFound == [cls |-> "NotFound", status |-> 404]
FileNotFoundError == [cls |-> "FileNotFoundError", status |-> 0]

\* An external call with its arguments and its response (a status, a count
\* or an exit code).
RCall(ctx, api, arg, resp) ==
    [ctx EXCEPT !.calls = Append(@, [api |-> api, arg |-> arg, resp |-> resp])]

\* MongoResources.getMemberHostname(pod_index, name, namespace)
getMemberHostname(pod_index, name, namespace) == <<name, pod_index, namespace>>

\* self.kubernetes_service.getSecret(...) as RestoreHelper sees it: the
\* storage-credential secret is read; ctx.secret_status is the response.
_getCredentials(ctx, o) ==
    LET secret_key == o.spec.backups.gcs.service_account.secret_key_ref
        c == RCall(ctx, "read_namespaced_secret", <<o.metadata.namespace, secret_key.name>>,
                   ctx.secret_status)
    IN  IF ctx.secret_status >= 400
        THEN [c EXCEPT !.exc = ApiException(ctx.secret_status)]
        ELSE c

ListBlobs(bucket, key) == SelectSeq(bucket, LAMBDA b : b.name[1] = key[1])

NoBlob == [name |-> <<>>, time_created |-> 0]

\* The loop with ">=" in place of ">": the last of equally recent blobs wins.
RECURSIVE LastBlob_LastWins(_, _, _)
LastBlob_LastWins(listing, i, last_blob) ==
    IF i > Len(listing) THEN last_blob
    ELSE LastBlob_LastWins(listing, i + 1,
                  IF last_blob = NoBlob \/ listing[i].time_created >= last_blob.time_created
                  THEN listing[i] ELSE last_blob)

RECURSIVE LastBlob(_, _, _)
LastBlob(listing, i, last_blob) ==
    IF i > Len(listing) THEN last_blob
    ELSE LastBlob(listing, i + 1,
                  IF last_blob = NoBlob \/ listing[i].time_created > last_blob.time_created
                  THEN listing[i] ELSE last_blob)

\* returns the context with ctx.ret set to the name found, or None
_lastBackupFile(ctx, bucket_name, key) ==
    LET c1 == RCall(ctx, "get_bucket", <<bucket_name>>, 200)
        listing == ListBlobs(ctx.blobs, key)
        c2 == RCall(c1, "list_blobs", <<bucket_name>> \o key, Len(listing))
        last_blob == LastBlob(listing, 1, NoBlob)
    IN  [c2 EXCEPT !.ret = IF last_blob # NoBlob THEN Str(last_blob.name) ELSE PyNone]

getLastBackup(ctx, o) ==
    LET gcs == o.spec.backups.gcs
        prefix == IF gcs.prefix # None THEN gcs.prefix ELSE DEFAULT_BACKUP_PREFIX
        bucket_name == IF gcs.restore_bucket # None THEN gcs.restore_bucket ELSE gcs.bucket
        c == _getCredentials(ctx, o)
    IN  IF Raised(c) THEN c ELSE _lastBackupFile(c, bucket_name, <<prefix>>)

\* bucket.blob(key).download_to_filename(file_name): the local file is opened
\* for writing first (its directory must exist: only /tmp does), then the
\* object is fetched; a missing object raises NotFound and, depending on the
\* client version, leaves the empty file behind or not (ctx.partial).
_downloadFile(ctx, bucket_name, key, file_name) ==
    LET c1 == RCall(ctx, "get_bucket", <<bucket_name>>, 200)
        arg == <<bucket_name, key, file_name>>
    IN  IF Len(file_name) # 2
        THEN [RCall(c1, "download_to_filename", arg, 0) EXCEPT !.exc = FileNotFoundError]
        ELSE IF \A i \in 1..Len(ctx.blobs) : ctx.blobs[i].name # key
        THEN [RCall(c1, "download_to_filename", arg, 404)
                EXCEPT !.exc = NotFound,
                       !.files = IF ctx.partial THEN @ \cup {file_name} ELSE @]
        ELSE [RCall(c1, "download_to_filename", arg, 200)
                EXCEPT !.files = @ \cup {file_name}, !.ret = Str(file_name)]

\* "{}/{}".format(prefix, backup_file) and "/tmp/" + backup_file; the keyword
\* arguments are evaluated left to right, credentials first.
_downloadBackup(ctx, o, backup_file) ==
    LET gcs == o.spec.backups.gcs
        prefix == IF gcs.prefix # None THEN gcs.prefix ELSE DEFAULT_BACKUP_PREFIX
        c == _getCredentials(ctx, o)
        bucket_name == IF gcs.restore_bucket # None THEN gcs.restore_bucket ELSE gcs.bucket
        key == <<prefix>> \o (IF backup_file.t = "NoneType" THEN <<"None">> ELSE backup_file.v)
    IN  IF Raised(c) THEN c
        ELSE IF backup_file.t # "str" THEN [c EXCEPT !.exc = TypeError]
        ELSE _downloadFile(c, bucket_name, key, <<"/tmp">> \o backup_file.v)

\* check_output(["mongorestore", "--host", hostname, "--gzip", "--archive", file])
check_output(ctx, hostname, downloaded_file) ==
    LET c == RCall(ctx, "mongorestore", <<hostname, downloaded_file>>, ctx.returncode)
    IN  IF ctx.returncode # 0
        THEN [c EXCEPT !.exc = [cls |-> "CalledProcessError", status |-> ctx.returncode]]
        ELSE c

os_remove(ctx, file_name) ==
    LET c == RCall(ctx, "os.remove", <<file_name>>, 0)
    IN  IF file_name \notin ctx.files THEN [c EXCEPT !.exc = FileNotFoundError]
        ELSE [c EXCEPT !.files = @ \ {file_name}]

\* restore catching CalledProcessError without raising anything in its place.
restore_Swallow(ctx, o, backup_file) ==
    LET pod_index == o.spec.mongodb.replicas - 1
        hostname == getMemberHostname(pod_index, o.metadata.name, o.metadata.namespace)
        c1 == _downloadBackup(ctx, o, backup_file)
        downloaded_file == c1.ret.v
        c2 == IF Raised(c1) THEN c1 ELSE check_output(c1, hostname, downloaded_file)
        c3 == IF c2.exc.cls = "CalledProcessError" THEN [c2 EXCEPT !.exc = NoExc] ELSE c2
        c4 == IF Raised(c3) THEN c3 ELSE os_remove(c3, downloaded_file)
    IN  [c4 EXCEPT !.ret = PyNone]

restore(ctx, o, backup_file) ==
    LET pod_index == o.spec.mongodb.replicas - 1
        hostname == getMemberHostname(pod_index, o.metadata.name, o.metadata.namespace)
        c1 == _downloadBackup(ctx, o, backup_file)
        downloaded_file == c1.ret.v
        c2 == IF Raised(c1) THEN c1 ELSE check_output(c1, hostname, downloaded_file)
        c3 == IF c2.exc.cls = "CalledProcessError"
              THEN [c2 EXCEPT !.exc = SubprocessError(backup_file, hostname, c2.exc.status,
                                                      None, "output")]
              ELSE c2
        c4 == IF Raised(c3) THEN c3 ELSE os_remove(c3, downloaded_file)
    IN  [c4 EXCEPT !.ret = PyNone]

\* restoreIfNeeded reading restore_from without the hasattr test, an unset
\* attribute read as None.
restoreIfNeeded_NoTest(ctx, o) ==
    LET gcs == o.spec.backups.gcs
        c1 == IF ~hasattr(gcs, "restore_from") THEN [ctx EXCEPT !.ret = PyNone]
              ELSE IF gcs.restore_from = <<"latest">> THEN getLastBackup(ctx, o)
              ELSE [ctx EXCEPT !.ret = Str(gcs.restore_from)]
        c2 == IF Raised(c1) THEN c1 ELSE restore(c1, o, c1.ret)
    IN  IF Raised(c2) THEN c2 ELSE [c2 EXCEPT !.ret = "True"]

\* ctx.ret is the returned bool (as "True"/"False") when nothing is raised
restoreIfNeeded(ctx, o) ==
    LET gcs == o.spec.backups.gcs IN
    IF hasattr(gcs, "restore_from")
    THEN LET c1 == IF gcs.restore_from = <<"latest">>
                   THEN getLastBackup(ctx, o)
                   ELSE [ctx EXCEPT !.ret = Str(gcs.restore_from)]
             backup_file == c1.ret
             c2 == IF Raised(c1) THEN c1 ELSE restore(c1, o, backup_file)
         IN  IF Raised(c2) THEN c2 ELSE [c2 EXCEPT !.ret = "True"]
    ELSE [ctx EXCEPT !.ret = "False"]

RContext(secret_status, returncode, partial) ==
    [blobs |-> blobs, files |-> files, calls |-> <<>>, exc |-> NoExc, ret |-> PyNone,
     secret_status |-> secret_status, returncode |-> returncode, partial |-> partial]

\* What the environment draws for one call: the response to the secret read,
\* the exit code of mongorestore, whether a failed download leaves a file.
\* A draw the call cannot consume is fixed.
RDraws(o) ==
    LET gcs == o.spec.backups.gcs
        ok == [secret_status |-> 200, returncode |-> 0, partial |-> FALSE]
        denied == [secret_status |-> 404, returncode |-> 0, partial |-> FALSE]
    IN  IF ~hasattr(gcs, "restore_from") THEN {ok}
        ELSE IF gcs.restore_from = <<"latest">> THEN {ok, denied}
        ELSE {denied} \cup { [secret_status |-> 200, returncode |-> rc, partial |-> pa] :
                                rc \in 0..MaxExit, pa \in BOOLEAN }

NoResult == [ret |-> "NotCalled", exc |-> NoExc]

\* One call of restoreIfNeeded, from entry to return or raise.
RestoreIfNeeded ==
    /\ \E o \in RestoreObjects : \E d \in RDraws(o) :
         \E c \in {restoreIfNeeded(RContext(d.secret_status, d.returncode, d.partial), o)} :
           /\ cluster_object' = o
           /\ files' = c.files
           /\ rcalls' = c.calls
           /\ result' = [ret |-> IF Raised(c) THEN "Raised" ELSE c.ret, exc |-> c.exc]
    /\ UNCHANGED blobs
    /\ UNCHANGED evars
    /\ UNCHANGED mvars

\* ------------------------------------------------------------------------
\* Specifications
\* ------------------------------------------------------------------------
NoEvent == [none |-> None]

\* The runner as constructed: not started, no thread, the watch not stopped.
RunnerCreated ==
    /\ state = "Created"
    /\ wpc = "none"
    /\ hook_called = FALSE
    /\ event_watcher = [_stop |-> FALSE]
    /\ iterations = 0
    /\ caught = 0
    /\ stop_calls = 0
    /\ stream = <<>>
    /\ pos = 0
    /\ oplog = <<>>

Init ==
    /\ secrets = EmptyDict
    /\ services = EmptyDict
    /\ stateful_sets = EmptyDict
    /\ exec = "created"
    /\ event = NoEvent
    /\ calls = <<>>
    /\ log = <<>>
    /\ raised = NoExc
    /\ blobs = <<>>
    /\ files = {}
    /\ cluster_object = NoObject
    /\ rcalls = <<>>
    /\ result = NoResult
    /\ RunnerCreated

\* The reconciliation controller.
Next == _execute \/ StreamEvent \/ StreamTimeout

Spec == Init /\ [][Next]_vars

\* The restore orchestrator.  The bucket is an input: any listing of at most
\* MaxBlobs objects with distinct names, in any iteration order.
Listings ==
    { l \in UNION { [1..n -> Blobs] : n \in 0..MaxBlobs } :
        \A i, j \in 1..Len(l) : l[i].name = l[j].name => i = j }

RestoreInit ==
    /\ secrets = EmptyDict
    /\ services = EmptyDict
    /\ stateful_sets = EmptyDict
    /\ exec = "created"
    /\ event = NoEvent
    /\ calls = <<>>
    /\ log = <<>>
    /\ raised = NoExc
    /\ blobs \in Listings
    /\ files = {}
    /\ cluster_object = NoObject
    /\ rcalls = <<>>
    /\ result = NoResult
    /\ RunnerCreated

RestoreNext == RestoreIfNeeded

RestoreSpec == RestoreInit /\ [][RestoreNext]_vars

\* ------------------------------------------------------------------------
\* The runner: the Manager base class that drives _execute on a worker thread
\* ------------------------------------------------------------------------

\* Events the watch delivers to the running controller.
RunnerEvents ==
    { e \in WellFormedEvents :
        /\ e.type \in EventTypes_members \cup {"ERROR"}
        /\ e.object.metadata.name = "mongo-a"
        /\ e.object.spec.mongodb.replicas = 1 }

\* What one opened stream delivers before its timeout, in delivery order.
Streams == UNION { [1..n -> RunnerEvents] : n \in 0..MaxStream }

\* self.event_watcher.stop(): the watch is flagged to end its stream.
Watch_stop(w) == [w EXCEPT !._stop = TRUE]

\* A shutdown hook that leaves the watch running.
_beforeShuttingDown_Noop(w) == w

\* _beforeShuttingDown: stop the event watcher.
_beforeShuttingDown(w) == Watch_stop(w)

\* An iteration that hands out the newest undelivered event first.
NextEvent_Newest(events, taken) == events[Len(events) - taken]

\* "for event in stream": the event the loop takes after `taken` events.
NextEvent(events, taken) == events[taken + 1]

evframe == UNCHANGED <<secrets, services, stateful_sets, event, calls, log, raised>>

\* start(): Created -> Running, the worker thread begins at the loop head.
Manager_start ==
    /\ state = "Created"
    /\ state' = "Running"
    /\ wpc' = "head"
    /\ UNCHANGED <<hook_called, event_watcher, iterations, caught, stop_calls,
                   stream, pos, oplog, exec>>
    /\ evframe
    /\ UNCHANGED rvars

\* Worker loop head, stop not requested: the next iteration calls _execute,
\* which opens a stream (Watch.stream clears the stop flag as it starts).
Manager_run ==
    /\ wpc = "head"
    /\ state = "Running"
    /\ iterations < MaxIterations
    /\ wpc' = "running"
    /\ iterations' = iterations + 1
    /\ exec' = "streaming"
    /\ stream' \in Streams
    /\ pos' = 0
    /\ oplog' = <<>>
    /\ event_watcher' = [event_watcher EXCEPT !._stop = FALSE]
    /\ UNCHANGED <<state, hook_called, caught, stop_calls>>
    /\ evframe
    /\ UNCHANGED rvars

\* Worker loop head, stop requested: the loop ends and the thread exits.
Manager_exit ==
    /\ wpc = "head"
    /\ state # "Running"
    /\ wpc' = "exited"
    /\ UNCHANGED <<state, hook_called, event_watcher, iterations, caught, stop_calls,
                   stream, pos, oplog, exec>>
    /\ evframe
    /\ UNCHANGED rvars

\* _execute on the worker thread: the for loop takes the next delivered event
\* and runs _processEvent on it.  The watch yields no further event once it
\* has been stopped and has yielded one.
Manager_forEvent ==
    /\ wpc = "running"
    /\ exec = "streaming"
    /\ pos < Len(stream)
    /\ pos = 0 \/ ~event_watcher._stop
    /\ \E e \in {NextEvent(stream, pos)} :
         \E c \in {_processEvent(Context(0, "pw1"), e)} :
           /\ event' = e
           /\ secrets' = c.secrets
           /\ services' = c.services
           /\ stateful_sets' = c.stateful_sets
           /\ calls' = c.calls
           /\ log' = c.log
           /\ raised' = c.exc
           /\ exec' = IF Raised(c) THEN "raised" ELSE "streaming"
           /\ oplog' = Append(oplog, [pos |-> pos + 1, event |-> e, calls |-> c.calls])
    /\ pos' = pos + 1
    /\ UNCHANGED <<state, wpc, hook_called, event_watcher, iterations, caught,
                   stop_calls, stream>>
    /\ UNCHANGED rvars

\* The stream ends (timeout, or the watch was stopped): _execute returns and
\* the worker is back at the loop head.
Manager_streamEnd ==
    /\ wpc = "running"
    /\ exec = "streaming"
    /\ pos = Len(stream) \/ (event_watcher._stop /\ pos > 0)
    /\ exec' = "returned"
    /\ wpc' = "head"
    /\ UNCHANGED <<state, hook_called, event_watcher, iterations, caught, stop_calls,
                   stream, pos, oplog>>
    /\ evframe
    /\ UNCHANGED rvars

\* A worker loop without the handler: the exception ends the thread.
Manager_catch_Propagate ==
    /\ wpc = "running"
    /\ exec = "raised"
    /\ wpc' = "exited"
    /\ UNCHANGED <<state, hook_called, event_watcher, iterations, caught, stop_calls,
                   stream, pos, oplog, exec>>
    /\ evframe
    /\ UNCHANGED rvars

\* An exception left _execute: the worker loop catches it, logs it and goes
\* back to the loop head.
Manager_catch ==
    /\ wpc = "running"
    /\ exec = "raised"
    /\ caught' = caught + 1
    /\ wpc' = "head"
    /\ UNCHANGED <<state, hook_called, event_watcher, iterations, stop_calls,
                   stream, pos, oplog, exec>>
    /\ evframe
    /\ UNCHANGED rvars

\* stop() on a running runner: termination is requested and the shutdown
\* hook is invoked.
Manager_stop ==
    /\ state = "Running"
    /\ state' = "StopRequested"
    /\ hook_called' = TRUE
    /\ event_watcher' = _beforeShuttingDown(event_watcher)
    /\ UNCHANGED <<wpc, iterations, caught, stop_calls, stream, pos, oplog, exec>>
    /\ evframe
    /\ UNCHANGED rvars

\* stop() blocks until the worker thread has exited, then returns.
Manager_join ==
    /\ state = "StopRequested"
    /\ wpc = "exited"
    /\ state' = "Stopped"
    /\ UNCHANGED <<wpc, hook_called, event_watcher, iterations, caught, stop_calls,
                   stream, pos, oplog, exec>>
    /\ evframe
    /\ UNCHANGED rvars

\* A stop() that restarts the shutdown on a runner already stopped.
Manager_stopStopped_Again ==
    /\ state = "Stopped"
    /\ stop_calls < MaxStopCalls
    /\ stop_calls' = stop_calls + 1
    /\ state' = "StopRequested"
    /\ UNCHANGED <<wpc, hook_called, event_watcher, iterations, caught,
                   stream, pos, oplog, exec>>
    /\ evframe
    /\ UNCHANGED rvars

\* stop() on a runner already stopped: nothing but the call itself happens.
Manager_stopStopped ==
    /\ state = "Stopped"
    /\ stop_calls < MaxStopCalls
    /\ stop_calls' = stop_calls + 1
    /\ UNCHANGED <<state, wpc, hook_called, event_watcher, iterations, caught,
                   stream, pos, oplog, exec>>
    /\ evframe
    /\ UNCHANGED rvars

RunnerNext ==
    \/ Manager_start
    \/ Manager_run
    \/ Manager_exit
    \/ Manager_forEvent
    \/ Manager_streamEnd
    \/ Manager_catch
    \/ Manager_stop
    \/ Manager_join
    \/ Manager_stopStopped

RunnerSpec == Init /\ [][RunnerNext]_vars

\* ------------------------------------------------------------------------
\* Properties of the reconciliation controller (Spec)
\* ------------------------------------------------------------------------
\* The last event is well formed and of type t.
IsEvent(t) == HasKey(event, "type") /\ HasKey(event, "object") /\ event.type = t

\* The platform keys derived from the identity of the last event.
ResourceKey == <<event.object.metadata.namespace, event.object.metadata.name>>
SecretKey ==
    <<event.object.metadata.namespace, <<event.object.metadata.name, "-admin-credentials">>>>

NoRequestFailed == \A i \in 1..Len(calls) : calls[i].status < 400
NoPlatformFault == \A i \in 1..Len(calls) : calls[i].status # 500

\* C1: processing a Deleted event issues, when no request fails, exactly the
\* stateful-set delete, then the service delete, then the secret delete, each
\* addressed to the resource named from the event's identity.
C1_DeletedIssuesThreeDeletesInOrder ==
    (IsEvent("DELETED") /\ NoRequestFailed) =>
        /\ Len(calls) = 3
        /\ calls[1].api = "delete_namespaced_stateful_set" /\ calls[1].key = ResourceKey
        /\ calls[2].api = "delete_namespaced_service" /\ calls[2].key = ResourceKey
        /\ calls[3].api = "delete_namespaced_secret" /\ calls[3].key = SecretKey

\* C2: an Added event whose secret creation is answered 409 (the secret is
\* there from an earlier Added) reads the existing secret next instead of
\* raising; once the read has returned the handler goes on to the service
\* creation, and no exception leaves the processing of an Added event.
C2_SecondAddedFetchesExistingSecret ==
    IsEvent("ADDED") =>
        /\ raised = NoExc
        /\ (Len(calls) >= 1 /\ calls[1].status = 409) =>
             /\ calls[1].api = "create_namespaced_secret" /\ calls[1].key = SecretKey
             /\ Len(calls) >= 2
             /\ calls[2].api = "read_namespaced_secret" /\ calls[2].key = SecretKey
             /\ calls[2].status = 200 =>
                  (Len(calls) >= 3 /\ calls[3].api = "create_namespaced_service")

C2_Witness ==
    /\ IsEvent("ADDED")
    /\ Len(calls) >= 3
    /\ calls[1].api = "create_namespaced_secret" /\ calls[1].status = 409
    /\ calls[2].api = "read_namespaced_secret" /\ calls[2].status = 200
    /\ raised = NoExc

\* C7: whatever fails while an Added, Modified or Deleted event is handled,
\* no exception leaves _processEvent and the watch loop goes on.
C7_HandlerFailuresContained ==
    (IsEvent("ADDED") \/ IsEvent("MODIFIED") \/ IsEvent("DELETED")) =>
        (raised = NoExc /\ exec # "raised")

\* C8: an Added event handled without a platform fault leaves the secret, the
\* service and the stateful set of its identity in existence, also when an
\* earlier Added for the identity had failed part-way.
C8_ReAddedConverges ==
    (IsEvent("ADDED") /\ NoPlatformFault) =>
        /\ SecretKey \in DOMAIN secrets
        /\ ResourceKey \in DOMAIN services
        /\ ResourceKey \in DOMAIN stateful_sets

\* C9: for a malformed event (no "type", no "object", or neither) no request
\* is issued against the platform and no exception is raised.
C9_MalformedEventIsNoOp ==
    (event \in MalformedEvents) => (calls = <<>> /\ raised = NoExc /\ exec # "raised")

C9_Witness ==
    /\ event \in MalformedEvents
    /\ HasKey(event, "type") /\ event.type = "ADDED"
    /\ calls = <<>>
    /\ DOMAIN secrets # {}

\* C10: for a well-formed event whose type is none of ADDED, MODIFIED,
\* DELETED no request is issued, no exception is raised, and the event is
\* dropped with a warning.
C10_UnknownTypeIsNoOp ==
    (HasKey(event, "type") /\ HasKey(event, "object")
       /\ event.type \notin {"ADDED", "MODIFIED", "DELETED"}) =>
        (calls = <<>> /\ raised = NoExc /\ log = <<"warning">>)

C10_Witness ==
    /\ HasKey(event, "type") /\ HasKey(event, "object")
    /\ event.type = "ERROR"
    /\ calls = <<>>
    /\ DOMAIN secrets # {}

\* ------------------------------------------------------------------------
\* Properties of the restore orchestrator (RestoreSpec)
\* ------------------------------------------------------------------------
Called == cluster_object # NoObject

Declares(rf) ==
    /\ Called
    /\ hasattr(cluster_object.spec.backups.gcs, "restore_from")
    /\ cluster_object.spec.backups.gcs.restore_from = rf

Made(api) == \E i \in 1..Len(rcalls) : rcalls[i].api = api

\* C3: restore_from is "latest" and the listing came back empty: the call
\* returns False, downloads nothing and does not run mongorestore.
C3_EmptyListingReturnsFalse ==
    (Declares(<<"latest">>)
       /\ \E i \in 1..Len(rcalls) : rcalls[i].api = "list_blobs" /\ rcalls[i].resp = 0) =>
        /\ result = [ret |-> "False", exc |-> NoExc]
        /\ ~Made("download_to_filename")
        /\ ~Made("mongorestore")

\* C4: a file that the call downloaded is gone from the local disk when the
\* call has returned or raised, whatever mongorestore exited with.
C4_ScratchCopyRemoved ==
    \A i \in 1..Len(rcalls) :
        (rcalls[i].api = "download_to_filename" /\ rcalls[i].resp = 200) =>
            rcalls[i].arg[3] \notin files

\* C5: when mongorestore exits non-zero the call raises SubprocessError with
\* the artifact name, the host of the last member, the exit code and the
\* captured output; it does not return True.
C5_RestoreFailureSurfaced ==
    \A i \in 1..Len(rcalls) :
        (rcalls[i].api = "mongorestore" /\ rcalls[i].resp # 0) =>
            /\ result.ret = "Raised"
            /\ result.exc.cls = "SubprocessError"
            /\ result.exc.backup_file = Str(cluster_object.spec.backups.gcs.restore_from)
            /\ result.exc.hostname = rcalls[i].arg[1]
            /\ result.exc.hostname[2] = cluster_object.spec.mongodb.replicas - 1
            /\ result.exc.returncode = rcalls[i].resp
            /\ result.exc.stdout = "output"

C5_Witness ==
    /\ Called
    /\ \E i \in 1..Len(rcalls) : rcalls[i].api = "mongorestore" /\ rcalls[i].resp # 0
    /\ result.ret = "Raised"

\* C6: with no restore_from declared the call returns False and makes no
\* call at all: no secret read, no listing, no download, no mongorestore.
C6_NoRestoreSourceNoCalls ==
    (Called /\ ~hasattr(cluster_object.spec.backups.gcs, "restore_from")) =>
        (result = [ret |-> "False", exc |-> NoExc] /\ rcalls = <<>>)

C6_Witness ==
    /\ Called
    /\ ~hasattr(cluster_object.spec.backups.gcs, "restore_from")
    /\ result.ret = "False"
    /\ files # {}

\* C11: over a non-empty listing _lastBackupFile returns the name of a blob
\* whose creation time is the maximum of the listing, and of the blobs with
\* that maximum the first in iteration order.  The returned name is read off
\* the download that restoreIfNeeded requests next (key = prefix/name).
C11_LatestIsFirstMaximum ==
    \A i \in 1..Len(rcalls) :
        (Declares(<<"latest">>) /\ rcalls[i].api = "list_blobs" /\ rcalls[i].resp > 0) =>
            LET prefix == rcalls[i].arg[2]
                l == SelectSeq(blobs, LAMBDA b : b.name[1] = prefix)
            IN  \E d \in 1..Len(rcalls) :
                  /\ rcalls[d].api = "download_to_filename"
                  /\ \E k \in 1..Len(l) :
                       /\ rcalls[d].arg[2] = <<prefix>> \o l[k].name
                       /\ \A j \in 1..Len(l) : l[j].time_created <= l[k].time_created
                       /\ \A j \in 1..(k - 1) : l[j].time_created < l[k].time_created

C11_Witness ==
    /\ Declares(<<"latest">>)
    /\ Made("list_blobs") /\ Made("download_to_filename")
    /\ Len(blobs) = 2
    /\ blobs[1].time_created = blobs[2].time_created

\* C12: an Added event issues the secret creation first; the service creation
\* only after the secret creation (or the read that replaces it on 409) has
\* returned; the stateful-set creation only after the service creation has
\* returned.
C12_AddedCreatesInOrder ==
    IsEvent("ADDED") =>
        /\ Len(calls) >= 1 => calls[1].api = "create_namespaced_secret"
        /\ \A i \in 1..Len(calls) :
             /\ calls[i].api = "create_namespaced_service" =>
                  /\ i > 1
                  /\ \/ calls[i - 1].api = "create_namespaced_secret" /\ calls[i - 1].status = 201
                     \/ calls[i - 1].api = "read_namespaced_secret" /\ calls[i - 1].status = 200
             /\ calls[i].api = "create_namespaced_stateful_set" =>
                  /\ i > 2
                  /\ calls[i - 1].api = "create_namespaced_service"
                  /\ calls[i - 1].status = 201

C12_Witness ==
    /\ IsEvent("ADDED")
    /\ Len(calls) = 3
    /\ \A i \in 1..3 : calls[i].status = 201
    /\ calls[3].api = "create_namespaced_stateful_set"

\* C13: a Modified event issues patches of the service and of the stateful
\* set of its identity and nothing else: no request touches a secret.
C13_ModifiedLeavesSecretAlone ==
    IsEvent("MODIFIED") =>
        \A i \in 1..Len(calls) :
            /\ calls[i].api \in {"patch_namespaced_service", "patch_namespaced_stateful_set"}
            /\ calls[i].key = ResourceKey

C13_Witness ==
    /\ IsEvent("MODIFIED")
    /\ Len(calls) = 2
    /\ calls[1].status = 200 /\ calls[2].status = 200
    /\ SecretKey \in DOMAIN secrets

\* C14: whatever event other than Deleted is processed, a stored credential
\* secret stays stored with the data it had: a replayed Added and a Modified
\* never replace the password of the first successful Added.
C14_CredentialGeneratedOnce ==
    [][(~IsEvent("DELETED"))' =>
          \A k \in DOMAIN secrets : k \in DOMAIN secrets' /\ secrets'[k] = secrets[k]]_vars

C14_Witness ==
    /\ IsEvent("ADDED")
    /\ Len(calls) >= 2
    /\ calls[1].status = 409 /\ calls[2].status = 200
    /\ secrets[SecretKey].password = "pw2"

\* C15: processing again the Added or Deleted event that was processed last
\* (no platform fault in either run) leaves the stored secrets, services and
\* stateful sets as they were and lets no exception escape.
C15_ReplayIsSafe ==
    [][(/\ exec = "streaming" /\ exec' # "returned"
        /\ event' = event
        /\ IsEvent("ADDED") \/ IsEvent("DELETED")
        /\ NoPlatformFault /\ NoPlatformFault') =>
          (/\ secrets' = secrets /\ services' = services /\ stateful_sets' = stateful_sets
           /\ raised' = NoExc)]_vars

CreateApis ==
    {"create_namespaced_secret", "create_namespaced_service", "create_namespaced_stateful_set"}
UpdateApis == {"patch_namespaced_service", "patch_namespaced_stateful_set"}
DeleteApis ==
    {"delete_namespaced_secret", "delete_namespaced_service", "delete_namespaced_stateful_set"}

\* C20 as claimed: ADDED issues only creations, MODIFIED only updates,
\* DELETED only deletions.
C20_OnlyOperationsOfTheType ==
    /\ IsEvent("ADDED") => \A i \in 1..Len(calls) : calls[i].api \in CreateApis
    /\ IsEvent("MODIFIED") => \A i \in 1..Len(calls) : calls[i].api \in UpdateApis
    /\ IsEvent("DELETED") => \A i \in 1..Len(calls) : calls[i].api \in DeleteApis

\* C20, amended: as above, except that ADDED also reads the credential
\* secret right after its creation was answered 409.
C20_OneMatchingBranch ==
    /\ IsEvent("ADDED") =>
         \A i \in 1..Len(calls) :
            \/ calls[i].api \in CreateApis
            \/ /\ calls[i].api = "read_namespaced_secret"
               /\ i > 1
               /\ calls[i - 1].api = "create_namespaced_secret"
               /\ calls[i - 1].status = 409
    /\ IsEvent("MODIFIED") => \A i \in 1..Len(calls) : calls[i].api \in UpdateApis
    /\ IsEvent("DELETED") => \A i \in 1..Len(calls) : calls[i].api \in DeleteApis

C20_Witness ==
    /\ IsEvent("ADDED")
    /\ Len(calls) = 4
    /\ calls[2].api = "read_namespaced_secret"
    /\ calls[4].status = 201


\* ------------------------------------------------------------------------
\* Properties of the runner (RunnerSpec)
\* ------------------------------------------------------------------------

\* C16: an exception raised by the unit of work on one iteration is logged by
\* the runner and never ends the worker loop: the worker thread has exited
\* only if a stop was requested, and a worker back at the loop head after a
\* raising _execute has logged an exception.
C16_FailureIsolated ==
    /\ wpc = "exited" => state \in {"StopRequested", "Stopped"}
    /\ (wpc = "head" /\ exec = "raised") => caught >= 1
    /\ caught <= iterations

\* A second iteration is executing after the first one raised and was logged,
\* with no stop requested.
C16_Witness ==
    /\ state = "Running"
    /\ wpc = "running"
    /\ iterations = 2
    /\ caught = 1

LifecycleSteps ==
    { <<"Created", "Running">>, <<"Running", "StopRequested">>,
      <<"StopRequested", "Stopped">> }

\* C18: the lifecycle changes only along Created -> Running -> StopRequested
\* -> Stopped, so Stopped is reached from StopRequested only and never left,
\* and a stop() on a stopped runner changes nothing of the runner, the worker,
\* the watch or the platform.
C18_LifecycleOrder ==
    [][ /\ state' # state => <<state, state'>> \in LifecycleSteps
        /\ state = "Stopped" =>
             /\ UNCHANGED <<state, wpc, hook_called, event_watcher, iterations, caught>>
             /\ UNCHANGED <<stream, pos, oplog, exec>>
             /\ UNCHANGED <<secrets, services, stateful_sets, calls, log, raised>> ]_vars

\* stop() was called on a runner that was already stopped.
C18_Witness ==
    /\ state = "Stopped"
    /\ stop_calls = 1

\* C19: the events processed from an open stream are exactly the first events
\* it delivered, in delivery order and one per turn of the loop: the i-th
\* processed event is the i-th delivered one, so the requests of an event are
\* all issued before those of any later event.
C19_ProcessedInDeliveryOrder ==
    /\ Len(oplog) = pos
    /\ pos <= Len(stream)
    /\ \A i \in 1..Len(oplog) :
         /\ oplog[i].pos = i
         /\ oplog[i].event = stream[i]

\* Two different events of one identity were delivered and both processed,
\* each issuing requests.
C19_Witness ==
    /\ Len(oplog) = 2
    /\ stream[1] # stream[2]
    /\ oplog[1].calls # <<>>
    /\ oplog[2].calls # <<>>

\* ------------------------------------------------------------------------
\* The restore sequence (RestoreSpec)
\* ------------------------------------------------------------------------

\* The order of the calls of one restoreIfNeeded: a listing only for the
\* sentinel, an exact name downloaded under the key prefix/name, mongorestore
\* at most once and right after a completed download, True only after
\* mongorestore exited with zero.
RestoreOrdering ==
    /\ Made("list_blobs") => Declares(<<"latest">>)
    /\ Declares(<<ArchiveNames[1]>>) =>
         \A i \in 1..Len(rcalls) :
            rcalls[i].api = "download_to_filename" =>
                /\ Len(rcalls[i].arg[2]) = 2
                /\ rcalls[i].arg[2][2] = ArchiveNames[1]
    /\ \A i \in 1..Len(rcalls) :
          rcalls[i].api = "mongorestore" =>
              /\ i > 1
              /\ rcalls[i - 1].api = "download_to_filename"
              /\ rcalls[i - 1].resp = 200
              /\ \A j \in 1..Len(rcalls) : rcalls[j].api = "mongorestore" => j = i
    /\ result.ret = "True" =>
          \E i \in 1..Len(rcalls) : rcalls[i].api = "mongorestore" /\ rcalls[i].resp = 0

\* Nothing outside the helper failed: the credential secret was readable, no
\* requested object was missing from the bucket, mongorestore exited with zero.
EnvironmentServed ==
    \A i \in 1..Len(rcalls) :
        /\ rcalls[i].api = "read_namespaced_secret" => rcalls[i].resp = 200
        /\ rcalls[i].api = "download_to_filename" => rcalls[i].resp # 404
        /\ rcalls[i].api = "mongorestore" => rcalls[i].resp = 0

\* The sentinel was resolved to an artifact: the listing was not empty.
Resolved ==
    Declares(<<"latest">>) =>
        \E i \in 1..Len(rcalls) : rcalls[i].api = "list_blobs" /\ rcalls[i].resp > 0

\* C21: a call with a declared restore source follows resolve -> download ->
\* mongorestore -> return True: the calls are made in that order (listing only
\* for 'latest', mongorestore once and after the completed download, True only
\* after exit code zero), and when the source was resolved and nothing outside
\* the helper failed the call runs the sequence to its end and returns True.
C21_RestoreSequence ==
    /\ RestoreOrdering
    /\ (Called /\ hasattr(cluster_object.spec.backups.gcs, "restore_from")
          /\ Resolved /\ EnvironmentServed)
         => result.ret = "True"

\* ------------------------------------------------------------------------
\* Dependencies of the stateful workload (Spec)
\* ------------------------------------------------------------------------

\* C22: in every reachable state, an identity whose stateful set exists has
\* its service and its operator admin secret too, whatever events were
\* processed and whichever requests the platform failed.
C22_WorkloadHasDependencies ==
    \A k \in DOMAIN stateful_sets :
        /\ k \in DOMAIN services
        /\ <<k[1], OPERATOR_ADMIN_SECRET_FORMAT(k[2])>> \in DOMAIN secrets

\* A Deleted was processed for an identity whose stateful set exists, while
\* another identity has a service and no stateful set (its creation failed).
C22_Witness ==
    /\ IsEvent("DELETED")
    /\ ResourceKey \in DOMAIN stateful_sets
    /\ \E k \in DOMAIN services : k \notin DOMAIN stateful_sets

\* C23: every object stored through the stateful-set API is a stateful-set
\* manifest: after an Added whose requests all succeeded, the workload stored
\* for the identity is of kind StatefulSet, not the Service manifest.
C23_WorkloadManifestSubmitted ==
    \A k \in DOMAIN stateful_sets : stateful_sets[k].kind = "StatefulSet"

====
